---- MODULE Spec2Model ----
(***************************************************************************)
(* Model of generators/01-number/generatory.py: the generator function     *)
(* numbers_gen(n) and its consumer main().                                 *)
(*                                                                         *)
(* The generator is modelled statement by statement.  Its frame is either  *)
(* not started (GEN_CREATED), executing (GEN_RUNNING), parked at the yield *)
(* of line 5 (GEN_SUSPENDED) or finished (GEN_CLOSED); these are the four  *)
(* states Python gives a generator object.  A next() call of the consumer  *)
(* hands control to the frame, and control comes back at the yield or at   *)
(* the end of the function body (StopIteration).                           *)
(*                                                                         *)
(* Two consumers are modelled:                                             *)
(*   Spec      a client that calls next() on a fresh generator any number  *)
(*             of times, also after exhaustion, and may stop at any time;  *)
(*   MainSpec  main(), the for loop of lines 10-12.                        *)
(***************************************************************************)
EXTENDS Integers, Sequences, FiniteSets, TLC

VARIABLES
    n,          \* the argument of numbers_gen
    gstate,     \* state of the generator object
    gpc,        \* the line of numbers_gen the frame executes next
    g_locals,   \* locals of the generator frame other than n: {} or {num}
    result,     \* outcome of the last next(): <<>>, <<"yield", v>>, <<"StopIteration">>
    out,        \* standard output, one element per line written
    mpc,        \* position of the consumer
    m_locals,   \* locals of main: {} or {num}
    requests,   \* history: number of next() calls made so far
    received    \* history: the values handed to the consumer, in order

vars == <<n, gstate, gpc, g_locals, result, out, mpc, m_locals, requests, received>>

-----------------------------------------------------------------------------
(* Bounds of the model *)

\* largest bound explored besides the one main() uses
MaxN == 8
\* the bounds explored go down to -NegN
NegN == 2
\* how many more next() calls the client may make after the first StopIteration
ExtraReq == 2

-----------------------------------------------------------------------------
(* Values *)

\* the bound main() passes: numbers_gen(20), line 10
MAIN_N == 20

NoLocals == [v \in {} |-> 0]

Max0(k) == IF k > 0 THEN k ELSE 0

\* print(x) writes x and a newline: one more line on standard output
print(lines, text) == Append(lines, text)

\* variant: the count starts at zero (num = 0)
InitialNumZero == 1 - 1

\* line 2: num = 1
InitialNum == 1

\* variant: the loop stops one short (while num < n)
LoopCondStrict(num_, n_) == num_ < n_

\* variant: the sign of the bound is dropped (while num <= abs(n))
LoopCondAbs(num_, n_) == num_ <= (IF n_ < 0 THEN 0 - n_ ELSE n_)

\* line 3: while num <= n
LoopCond(num_, n_) == num_ <= n_

\* variant: the announcement is one ahead (f'yielding number: {num + 1}')
YieldingLineAhead(k) == "yielding number: " \o ToString(k + 1)

\* line 4: f'yielding number: {num}'
YieldingLine(k) == "yielding number: " \o ToString(k)

\* variant: the step is two (num += 2)
IncrByTwo(k) == k + 2

\* line 6: num += 1
Incr(k) == k + 1

\* variant: the received value is not interpolated ('number received: {num}'
\* without the f prefix)
ReceivedLineRaw(k) == "number received: {num}"

\* line 11: f'number received: {num}'
ReceivedLine(k) == "number received: " \o ToString(k)

\* line 12: print() writes an empty line
BlankLine == ""

-----------------------------------------------------------------------------
(* numbers_gen *)

\* variant: a finished generator starts over on the next request
GenNextRestart ==
    /\ gstate \in {"GEN_CREATED", "GEN_SUSPENDED", "GEN_CLOSED"}
    /\ requests' = requests + 1
    /\ gstate' = "GEN_RUNNING"
    /\ gpc' = IF gstate = "GEN_SUSPENDED" THEN "line6" ELSE "line2"
    /\ result' = <<>>
    /\ UNCHANGED <<n, g_locals, out, m_locals, received>>

\* next(gen): a frame that has not started begins at line 2, a frame parked
\* at the yield continues with line 6, a finished generator raises
\* StopIteration again without running any code.
GenNext ==
    /\ gstate \in {"GEN_CREATED", "GEN_SUSPENDED", "GEN_CLOSED"}
    /\ requests' = requests + 1
    /\ IF gstate = "GEN_CLOSED"
       THEN /\ result' = <<"StopIteration">>
            /\ UNCHANGED <<gstate, gpc>>
       ELSE /\ gstate' = "GEN_RUNNING"
            /\ gpc' = IF gstate = "GEN_CREATED" THEN "line2" ELSE "line6"
            /\ result' = <<>>
    /\ UNCHANGED <<n, g_locals, out, m_locals, received>>

\* line 2: num = 1
GenAssign ==
    /\ gstate = "GEN_RUNNING" /\ gpc = "line2"
    /\ g_locals' = [v \in {"num"} |-> InitialNum]
    /\ gpc' = "line3"
    /\ UNCHANGED <<n, gstate, result, out, mpc, m_locals, requests, received>>

\* line 3: while num <= n, condition true
GenWhileTrue ==
    /\ gstate = "GEN_RUNNING" /\ gpc = "line3"
    /\ LoopCond(g_locals.num, n)
    /\ gpc' = "line4"
    /\ UNCHANGED <<n, gstate, g_locals, result, out, mpc, m_locals, requests, received>>

\* line 3: while num <= n, condition false: the body ends, the generator
\* is finished and the pending next() raises StopIteration.  The last
\* values of the locals are kept so that the cursor can be spoken of after
\* exhaustion.
GenWhileFalse ==
    /\ gstate = "GEN_RUNNING" /\ gpc = "line3"
    /\ ~LoopCond(g_locals.num, n)
    /\ gstate' = "GEN_CLOSED"
    /\ gpc' = "end"
    /\ result' = <<"StopIteration">>
    /\ UNCHANGED <<n, g_locals, out, mpc, m_locals, requests, received>>

\* line 4: print(f'yielding number: {num}')
GenPrint ==
    /\ gstate = "GEN_RUNNING" /\ gpc = "line4"
    /\ out' = print(out, YieldingLine(g_locals.num))
    /\ gpc' = "line5"
    /\ UNCHANGED <<n, gstate, g_locals, result, mpc, m_locals, requests, received>>

\* variant: the cursor is advanced before the frame is parked (num += 1
\* placed ahead of the hand-over)
GenYieldEager ==
    /\ gstate = "GEN_RUNNING" /\ gpc = "line5"
    /\ gstate' = "GEN_SUSPENDED"
    /\ result' = <<"yield", g_locals.num>>
    /\ received' = Append(received, g_locals.num)
    /\ g_locals' = [g_locals EXCEPT !["num"] = g_locals.num + 1]
    /\ UNCHANGED <<n, gpc, out, mpc, m_locals, requests>>

\* line 5: yield num: the frame is parked here and the pending next()
\* returns num.
GenYield ==
    /\ gstate = "GEN_RUNNING" /\ gpc = "line5"
    /\ gstate' = "GEN_SUSPENDED"
    /\ result' = <<"yield", g_locals.num>>
    /\ received' = Append(received, g_locals.num)
    /\ UNCHANGED <<n, gpc, g_locals, out, mpc, m_locals, requests>>

\* line 6: num += 1, then back to the loop test
GenIncr ==
    /\ gstate = "GEN_RUNNING" /\ gpc = "line6"
    /\ g_locals' = [g_locals EXCEPT !["num"] = Incr(g_locals.num)]
    /\ gpc' = "line3"
    /\ UNCHANGED <<n, gstate, result, out, mpc, m_locals, requests, received>>

GenStep ==
    \/ GenAssign
    \/ GenWhileTrue
    \/ GenWhileFalse
    \/ GenPrint
    \/ GenYield
    \/ GenIncr

-----------------------------------------------------------------------------
(* A client of a fresh numbers_gen(n) *)

Bounds == (0 - NegN) .. MaxN

Init ==
    /\ n \in Bounds
    /\ gstate = "GEN_CREATED"
    /\ gpc = "line2"
    /\ g_locals = NoLocals
    /\ result = <<>>
    /\ out = <<>>
    /\ mpc = "client"
    /\ m_locals = NoLocals
    /\ requests = 0
    /\ received = <<>>

\* the client calls next(gen); it may do so again after StopIteration
ClientNext ==
    /\ mpc = "client"
    /\ requests < Max0(n) + 1 + ExtraReq
    /\ GenNext
    /\ UNCHANGED mpc

Next ==
    \/ ClientNext
    \/ GenStep

Spec == Init /\ [][Next]_vars

-----------------------------------------------------------------------------
(* main *)

\* the bounds main() is run with: the one of the source and the explored ones
MainBounds == Bounds \cup {MAIN_N}

InitMain ==
    /\ n \in MainBounds
    /\ gstate = "NO_GEN"
    /\ gpc = "none"
    /\ g_locals = NoLocals
    /\ result = <<>>
    /\ out = <<>>
    /\ mpc = "line10_call"
    /\ m_locals = NoLocals
    /\ requests = 0
    /\ received = <<>>

\* line 10: numbers_gen(n) is evaluated: it makes the generator object and
\* runs none of the body
MainCall ==
    /\ mpc = "line10_call"
    /\ gstate' = "GEN_CREATED"
    /\ gpc' = "line2"
    /\ mpc' = "line10_next"
    /\ UNCHANGED <<n, g_locals, result, out, m_locals, requests, received>>

\* line 10: the for statement asks the generator for its next value
MainFor ==
    /\ mpc = "line10_next"
    /\ GenNext
    /\ mpc' = "line10_wait"

\* line 10: next() returned a value: it is bound to num and the body runs
MainBind ==
    /\ mpc = "line10_wait" /\ gstate = "GEN_SUSPENDED"
    /\ m_locals' = [v \in {"num"} |-> result[2]]
    /\ mpc' = "line11"
    /\ UNCHANGED <<n, gstate, gpc, g_locals, result, out, requests, received>>

\* variant: StopIteration does not end the loop, the next value is asked for
MainStopRetry ==
    /\ mpc = "line10_wait" /\ gstate = "GEN_CLOSED"
    /\ mpc' = "line10_next"
    /\ UNCHANGED <<n, gstate, gpc, g_locals, result, out, m_locals, requests, received>>

\* line 10: next() raised StopIteration: the loop ends and main returns
MainStop ==
    /\ mpc = "line10_wait" /\ gstate = "GEN_CLOSED"
    /\ mpc' = "done"
    /\ UNCHANGED <<n, gstate, gpc, g_locals, result, out, m_locals, requests, received>>

\* line 11: print(f'number received: {num}')
MainPrintReceived ==
    /\ mpc = "line11"
    /\ out' = print(out, ReceivedLine(m_locals.num))
    /\ mpc' = "line12"
    /\ UNCHANGED <<n, gstate, gpc, g_locals, result, m_locals, requests, received>>

\* variant: line 12 is missing, no blank line is written
MainSkipBlank ==
    /\ mpc = "line12"
    /\ mpc' = "line10_next"
    /\ UNCHANGED <<n, gstate, gpc, g_locals, result, out, m_locals, requests, received>>

\* line 12: print()
MainPrintBlank ==
    /\ mpc = "line12"
    /\ out' = print(out, BlankLine)
    /\ mpc' = "line10_next"
    /\ UNCHANGED <<n, gstate, gpc, g_locals, result, m_locals, requests, received>>

NextMain ==
    \/ MainCall
    \/ MainFor
    \/ MainBind
    \/ MainStop
    \/ MainPrintReceived
    \/ MainPrintBlank
    \/ GenStep

\* One thread runs the program: a step that can be taken is taken.
MainSpec == InitMain /\ [][NextMain]_vars /\ WF_vars(NextMain)

-----------------------------------------------------------------------------
(* Properties *)

HasNum == "num" \in DOMAIN g_locals

\* the generator is parked at its yield or has finished
AtRest == gstate \in {"GEN_SUSPENDED", "GEN_CLOSED"}

\* the sequence 1, 2, ..., k (empty for k <= 0)
OneTo(k) == [i \in 1 .. Max0(k) |-> i]

IsPrefix(s, t) == Len(s) <= Len(t) /\ \A i \in 1 .. Len(s) : s[i] = t[i]

\* the announcements of 1 .. k, as the output format states them
Announced(k) == [i \in 1 .. Max0(k) |-> "yielding number: " \o ToString(i)]

\* the output of a run with bound k, as the output format states it: for
\* v = 1 .. k the lines 'yielding number: v', 'number received: v' and an
\* empty line
RECURSIVE ExpectedOutput(_)
ExpectedOutput(k) ==
    IF k <= 0 THEN <<>>
    ELSE ExpectedOutput(k - 1) \o
         << "yielding number: " \o ToString(k),
            "number received: " \o ToString(k),
            "" >>

CountBlank(lines) == Cardinality({i \in 1 .. Len(lines) : lines[i] = ""})

CountNonBlank(lines) == Cardinality({i \in 1 .. Len(lines) : lines[i] # ""})

\* C1: for n >= 1 the values handed to the consumer are at every moment
\* 1, 2, ..., j for some j <= n (ascending, none skipped, repeated or beyond
\* n), and once the generator is exhausted they are exactly 1, 2, ..., n.
C1_YieldsOneToN ==
    n >= 1 =>
        /\ IsPrefix(received, OneTo(n))
        /\ gstate = "GEN_CLOSED" => received = OneTo(n)

C1_Witness == n >= 2 /\ gstate = "GEN_CLOSED" /\ Len(received) = n

\* C2: for n <= 0 nothing is ever produced or written, the first request is
\* answered by StopIteration and by nothing else, and main ends after that one
\* request with an empty output.
C2_EmptyForNonPositive ==
    n <= 0 =>
        /\ out = <<>>
        /\ received = <<>>
        /\ result \in {<<>>, <<"StopIteration">>}
        /\ gstate # "GEN_SUSPENDED"
        /\ (requests >= 1 /\ gstate # "GEN_RUNNING") =>
               gstate = "GEN_CLOSED" /\ result = <<"StopIteration">>
        /\ mpc = "done" => requests = 1 /\ gstate = "GEN_CLOSED"

C2_Witness == n < 0 /\ mpc = "done" /\ requests = 1 /\ out = <<>>

\* C3: in every step that hands a value k to the consumer, nothing is
\* written, and the last line written before it is 'yielding number: k'.
C3_AnnouncedBeforeHandOff ==
    [][ (gstate # "GEN_SUSPENDED" /\ gstate' = "GEN_SUSPENDED") =>
            /\ result' # <<>> /\ result'[1] = "yield"
            /\ received' = Append(received, result'[2])
            /\ out' = out
            /\ Len(out) > 0
            /\ out[Len(out)] = "yielding number: " \o ToString(result'[2])
      ]_vars

C3_Witness ==
    /\ gstate = "GEN_SUSPENDED" /\ mpc = "line10_wait"
    /\ result = <<"yield", 3>>
    /\ out[Len(out)] = "yielding number: 3"

\* C4: once the generator is exhausted, every further step leaves it
\* exhausted, writes nothing, produces nothing, leaves the cursor as it is,
\* and every further request is answered by StopIteration.
C4_ExhaustionIsTerminal ==
    [][ gstate = "GEN_CLOSED" =>
            /\ gstate' = "GEN_CLOSED"
            /\ out' = out
            /\ received' = received
            /\ g_locals' = g_locals
            /\ result' = <<"StopIteration">>
      ]_vars

C4_Witness ==
    /\ n >= 1 /\ gstate = "GEN_CLOSED"
    /\ requests = n + 1 + ExtraReq
    /\ Len(received) = n

\* C5: the output of main with bound n is at every moment a prefix of the
\* blocks 'yielding number: v', 'number received: v', empty line for
\* v = 1 .. n, and it is exactly these blocks when main has ended.
C5_OutputIsTheBlocks ==
    /\ IsPrefix(out, ExpectedOutput(n))
    /\ mpc = "done" => out = ExpectedOutput(n)

C5_Witness ==
    /\ n = 3 /\ mpc = "done"
    /\ out = << "yielding number: 1", "number received: 1", "",
                "yielding number: 2", "number received: 2", "",
                "yielding number: 3", "number received: 3", "" >>

\* C6 as stated: the run of main with n = 20 writes the 20 blocks for
\* v = 1 .. 20, 60 lines that are not blank and 20 blank lines.
C6_SixtyNonBlankLines ==
    (n = MAIN_N /\ mpc = "done") =>
        /\ out = ExpectedOutput(20)
        /\ CountNonBlank(out) = 60
        /\ CountBlank(out) = 20

\* C6: the run of main with n = 20 writes the 20 blocks for v = 1 .. 20:
\* 60 lines in all, 40 of them not blank and 20 blank, every third line the
\* blank one.
C6_SixtyLinesInAll ==
    (n = MAIN_N /\ mpc = "done") =>
        /\ out = ExpectedOutput(20)
        /\ Len(out) = 60
        /\ CountNonBlank(out) = 40
        /\ CountBlank(out) = 20
        /\ \A i \in 1 .. Len(out) : (out[i] = "") <=> (i % 3 = 0)

C6_Witness == n = MAIN_N /\ mpc = "done" /\ Len(out) = 60

\* C7 as stated: for every n, whenever the generator is parked at its yield
\* or exhausted, 1 <= num <= n + 1, and it is exhausted exactly when num > n.
C7_CursorWithinNPlusOne ==
    AtRest =>
        /\ HasNum
        /\ 1 <= g_locals.num /\ g_locals.num <= n + 1
        /\ (gstate = "GEN_CLOSED") <=> (g_locals.num > n)

\* C7: for every n, whenever the generator is parked at its yield or
\* exhausted, 1 <= num <= max(n, 0) + 1, and it is exhausted exactly when
\* num > n.
C7_CursorWithinMaxNPlusOne ==
    AtRest =>
        /\ HasNum
        /\ 1 <= g_locals.num /\ g_locals.num <= Max0(n) + 1
        /\ (gstate = "GEN_CLOSED") <=> (g_locals.num > n)

C7_Witness == n >= 1 /\ gstate = "GEN_CLOSED" /\ HasNum /\ g_locals.num = n + 1

\* C8: main ends; when it has ended it has received max(n, 0) values with
\* max(n, 0) + 1 requests and the generator is exhausted; and once a request
\* has been answered by StopIteration nothing more is written or requested.
C8_MainTerminates ==
    /\ <>(mpc = "done")
    /\ [](mpc = "done" =>
            /\ gstate = "GEN_CLOSED"
            /\ Len(received) = Max0(n)
            /\ requests = Max0(n) + 1)
    /\ [][ result = <<"StopIteration">> =>
               /\ out' = out
               /\ requests' = requests
               /\ mpc' = "done"
         ]_vars

C8_Witness == n >= 1 /\ mpc = "done" /\ Len(received) = n /\ requests = n + 1

\* C9: the first value of num is 1; every later change of num adds exactly 1,
\* is made by line 6 of the resumed frame, and is the one change that follows
\* the hand-over of the value num had; steps that write output and steps of
\* main leave num alone.
C9_CursorStepsByOne ==
    /\ [][ /\ g_locals' # g_locals =>
                IF HasNum
                THEN /\ g_locals'.num = g_locals.num + 1
                     /\ gstate = "GEN_RUNNING" /\ gpc = "line6"
                     /\ Len(received) = g_locals.num
                     /\ received[Len(received)] = g_locals.num
                ELSE g_locals'.num = 1
           /\ (out' # out \/ mpc' # mpc \/ requests' # requests) =>
                g_locals' = g_locals
         ]_vars
    /\ [](HasNum =>
            g_locals.num - 1 =
                IF gstate = "GEN_SUSPENDED" \/ (gstate = "GEN_RUNNING" /\ gpc = "line6")
                THEN Len(received) - 1
                ELSE Len(received))

C9_Witness ==
    /\ HasNum /\ g_locals.num = 4
    /\ gstate = "GEN_RUNNING" /\ gpc = "line3"
    /\ Len(received) = 3

\* C10 as stated: when the consumer holds control after j requests,
\* 0 <= j <= n, exactly the announcements of 1 .. j have been written and the
\* cursor is j.
C10_CursorIsRequestCount ==
    (gstate # "GEN_RUNNING" /\ requests <= n) =>
        /\ out = Announced(requests)
        /\ HasNum /\ g_locals.num = requests

\* C10: when the consumer holds control after j requests, 0 <= j <= n,
\* exactly the announcements of 1 .. j have been written; for j >= 1 the frame
\* is parked at its yield with cursor j; for j = 0 the frame has not started
\* and num is not yet assigned; and nothing is written or changed in the
\* generator by a step that is not part of a request.
C10_NeverAheadOfConsumer ==
    /\ []((gstate # "GEN_RUNNING" /\ requests <= n) =>
            /\ out = Announced(requests)
            /\ received = OneTo(requests)
            /\ IF requests >= 1
               THEN gstate = "GEN_SUSPENDED" /\ HasNum /\ g_locals.num = requests
               ELSE gstate = "GEN_CREATED" /\ ~HasNum)
    /\ [][ (gstate # "GEN_RUNNING" /\ requests' = requests) =>
               UNCHANGED <<out, g_locals, gstate, received>>
         ]_vars

C10_Witness ==
    /\ n >= 4 /\ requests = 2 /\ gstate = "GEN_SUSPENDED"
    /\ out = << "yielding number: 1", "yielding number: 2" >>
    /\ g_locals.num = 2

====
